---- MODULE Spec2Model ----
(***************************************************************************)
(* A model of protocols/opentrons_protocol.py: the volume planner          *)
(* (find_volumes_single, calculate_transfer_volumes), the input loader     *)
(* (load_csv_inputs) and the run (run, with its inner smart_transfer).     *)
(*                                                                         *)
(* Volumes are Python floats in the source.  They are modelled as exact    *)
(* rationals [n |-> numerator, d |-> denominator > 0] in lowest terms, so  *)
(* that a division is a division and not a rounding; float64 rounding      *)
(* error itself is not modelled.                                           *)
(***************************************************************************)
EXTENDS Integers, Sequences, FiniteSets, TLC

(***************************************************************************)
(* Rational arithmetic                                                     *)
(***************************************************************************)
Abs(x) == IF x < 0 THEN -x ELSE x

RECURSIVE GCD(_, _)
GCD(a, b) == IF b = 0 THEN a ELSE GCD(b, a % b)

\* n/d in lowest terms, d > 0
Rat(n, d) ==
    LET s == IF d < 0 THEN -1 ELSE 1
        g == GCD(Abs(n), Abs(d))
    IN  [n |-> (s * n) \div g, d |-> (s * d) \div g]

FromInt(i) == [n |-> i, d |-> 1]
RatAdd(x, y) == Rat(x.n * y.d + y.n * x.d, x.d * y.d)
RatSub(x, y) == Rat(x.n * y.d - y.n * x.d, x.d * y.d)
RatDivInt(x, k) == Rat(x.n, x.d * k)
RatLt(x, y) == x.n * y.d < y.n * x.d
RatLeq(x, y) == x.n * y.d <= y.n * x.d
RatAbs(x) == [n |-> Abs(x.n), d |-> x.d]
\* np.ceil of a rational
RatCeil(x) == -((-x.n) \div x.d)

\* the sum of a sequence of rationals, left to right
RatSum(s) ==
    LET sum[k \in 0..Len(s)] == IF k = 0 THEN FromInt(0) ELSE RatAdd(sum[k - 1], s[k])
    IN  sum[Len(s)]

(***************************************************************************)
(* Bounds of the model                                                     *)
(***************************************************************************)
\* number of destination wells (rows of target_concentrations.csv)
NumWells == 2
\* a single smart_transfer call is given the volumes 0, 1/2, 1, ... MaxHalfVolume/2
MaxHalfVolume == 700

(***************************************************************************)
(* Program constants                                                       *)
(***************************************************************************)
None == "None"
KanStock == 300
MinTransferVolume == 1
SkipBelow == 1
P20Max == 20
P300Max == 300
AutoCutoff == 20
MixReps == 3
MixVol == 10
ProgressEvery == 10

\* CONFIG values the run may be configured with (well_volume, min_transfer_volume,
\* culture_factor); the first is the CONFIG of the source
Configs ==
    { [well_volume |-> 1500, min_transfer_volume |-> MinTransferVolume, culture_factor |-> 100],
      [well_volume |-> 1500, min_transfer_volume |-> MinTransferVolume, culture_factor |-> 4] }

(***************************************************************************)
(* find_volumes_single                                                     *)
(***************************************************************************)
\* (target_conc * well_volume) / stock
VolFor(target_conc, well_volume, stock) == Rat(target_conc * well_volume, stock)

\* vol >= min_volume and vol <= well_volume / culture_ratio
InBounds(vol, well_volume, min_volume, culture_ratio) ==
    /\ RatLeq(FromInt(min_volume), vol)
    /\ RatLeq(vol, Rat(well_volume, culture_ratio))

\* a changed planner: without the early return for a zero target
find_volumes_no_zero_check(stock_high, stock_low, target_conc, well_volume, min_volume, culture_ratio) ==
    IF stock_high > 0
       /\ InBounds(VolFor(target_conc, well_volume, stock_high),
                   well_volume, min_volume, culture_ratio)
    THEN <<VolFor(target_conc, well_volume, stock_high), "high">>
    ELSE IF stock_low > 0
            /\ InBounds(VolFor(target_conc, well_volume, stock_low),
                        well_volume, min_volume, culture_ratio)
         THEN <<VolFor(target_conc, well_volume, stock_low), "low">>
    ELSE IF stock_high > 0 THEN <<VolFor(target_conc, well_volume, stock_high), "high">>
    ELSE IF stock_low > 0 THEN <<VolFor(target_conc, well_volume, stock_low), "low">>
    ELSE <<FromInt(0), None>>

find_volumes_single(stock_high, stock_low, target_conc, well_volume, min_volume, culture_ratio) ==
    IF target_conc = 0 THEN <<FromInt(0), None>>
    ELSE IF stock_high > 0
            /\ InBounds(VolFor(target_conc, well_volume, stock_high),
                        well_volume, min_volume, culture_ratio)
         THEN <<VolFor(target_conc, well_volume, stock_high), "high">>
    ELSE IF stock_low > 0
            /\ InBounds(VolFor(target_conc, well_volume, stock_low),
                        well_volume, min_volume, culture_ratio)
         THEN <<VolFor(target_conc, well_volume, stock_low), "low">>
    ELSE IF stock_high > 0 THEN <<VolFor(target_conc, well_volume, stock_high), "high">>
    ELSE IF stock_low > 0 THEN <<VolFor(target_conc, well_volume, stock_low), "low">>
    ELSE <<FromInt(0), None>>

(***************************************************************************)
(* calculate_transfer_volumes                                              *)
(***************************************************************************)
SeqToSet(s) == { s[i] : i \in DOMAIN s }

\* one cell of the two frames: <<volume, level>>
Cell(df_stock, target, comp, well_volume, min_volume, culture_ratio) ==
    IF comp = "Kan"
    THEN <<VolFor(target, well_volume, df_stock.high[comp]), "high">>
    ELSE find_volumes_single(df_stock.high[comp], df_stock.low[comp], target,
                             well_volume, min_volume, culture_ratio)

\* a changed fill: the culture volume is not taken off
WaterVolumeNoCulture(well_volume, total_other, culture_vol) ==
    RatSub(FromInt(well_volume), total_other)

\* df_volumes['Water'] = well_volume - total_other - culture_vol
WaterVolume(well_volume, total_other, culture_vol) ==
    RatSub(RatSub(FromInt(well_volume), total_other), culture_vol)

\* a row of df_volumes: the component columns, then Water and Culture
VolumeRow(df_stock, targetRow, well_volume, min_volume, culture_ratio) ==
    LET comps == df_stock.index
        vols == [c \in SeqToSet(comps) |->
                   Cell(df_stock, targetRow[c], c, well_volume, min_volume, culture_ratio)[1]]
        total_other == RatSum([i \in DOMAIN comps |-> vols[comps[i]]])
        culture_vol == Rat(well_volume, culture_ratio)
    IN  [c \in SeqToSet(comps) \cup {"Water", "Culture"} |->
           IF c = "Water" THEN WaterVolume(well_volume, total_other, culture_vol)
           ELSE IF c = "Culture" THEN culture_vol
           ELSE vols[c]]

LevelRow(df_stock, targetRow, well_volume, min_volume, culture_ratio) ==
    [c \in SeqToSet(df_stock.index) |->
       Cell(df_stock, targetRow[c], c, well_volume, min_volume, culture_ratio)[2]]

\* <<df_volumes, df_conc_level>>, each indexed by destination well
calculate_transfer_volumes(df_stock, df_target_conc, well_volume, min_volume, culture_ratio) ==
    << [w \in DOMAIN df_target_conc |->
          VolumeRow(df_stock, df_target_conc[w], well_volume, min_volume, culture_ratio)],
       [w \in DOMAIN df_target_conc |->
          LevelRow(df_stock, df_target_conc[w], well_volume, min_volume, culture_ratio)] >>

\* the columns of df_volumes, in order
VolumeColumns(df_stock) == df_stock.index \o <<"Water", "Culture">>

\* df_volumes.sum(axis=1) for one row
RowSum(df_stock, row) ==
    LET cols == VolumeColumns(df_stock)
    IN  RatSum([i \in DOMAIN cols |-> row[cols[i]]])

\* not all(abs(total_vols - well_volume) < 0.01)
ValidationFails(df_stock, volumes, well_volume) ==
    \E w \in DOMAIN volumes :
        ~RatLt(RatAbs(RatSub(RowSum(df_stock, volumes[w]), FromInt(well_volume))), Rat(1, 100))

(***************************************************************************)
(* smart_transfer: the pipette.transfer calls it issues, in order          *)
(***************************************************************************)
NoMix == <<>>
CultureMix == <<MixReps, MixVol>>

\* a changed cutoff: p20 up to and including 20
AutoPipetteInclusive(volume) == IF RatLeq(volume, FromInt(AutoCutoff)) THEN "p20" ELSE "p300"

\* pipette = p20 if volume < 20 else p300
AutoPipette(volume) == IF RatLt(volume, FromInt(AutoCutoff)) THEN "p20" ELSE "p300"

ChoosePipette(volume, pip_choice) ==
    IF pip_choice = "auto" THEN AutoPipette(volume)
    ELSE IF pip_choice = "p20" THEN "p20"
    ELSE "p300"

MaxVolume(pipette) == IF pipette = "p20" THEN P20Max ELSE P300Max

TransferCall(pipette, volume, source, dest, mix) ==
    [pipette |-> pipette, volume |-> volume, source |-> source, dest |-> dest,
     new_tip |-> "always", mix_after |-> mix]

\* a changed split: floor + 1 in place of ceil
SplitCallsFloor(pipette, volume, source, dest, mix_after) ==
    LET q == RatDivInt(volume, MaxVolume(pipette))
        num_transfers == (q.n \div q.d) + 1
        vol_per_transfer == RatDivInt(volume, num_transfers)
    IN  [i \in 1..num_transfers |->
           TransferCall(pipette, vol_per_transfer, source, dest, NoMix)]

\* the split branch: num_transfers calls of volume / num_transfers, no mix_after
SplitCalls(pipette, volume, source, dest, mix_after) ==
    LET num_transfers == RatCeil(RatDivInt(volume, MaxVolume(pipette)))
        vol_per_transfer == RatDivInt(volume, num_transfers)
    IN  [i \in 1..num_transfers |->
           TransferCall(pipette, vol_per_transfer, source, dest, NoMix)]

\* the skip of a transfer below the minimum: volume < 1.0
BelowMinimum(volume) == RatLt(volume, FromInt(SkipBelow))

smart_transfer(volume, source, dest, pip_choice, mix_after) ==
    IF BelowMinimum(volume) THEN <<>>
    ELSE LET pipette == ChoosePipette(volume, pip_choice)
         IN  IF RatLt(FromInt(MaxVolume(pipette)), volume)
             THEN SplitCalls(pipette, volume, source, dest, mix_after)
             ELSE <<TransferCall(pipette, volume, source, dest, mix_after)>>

(***************************************************************************)
(* The inputs: the CSV tables as read, before load_csv_inputs formats them *)
(***************************************************************************)
\* stock_concentrations.csv: the Component column, in file order
StockIndex == <<"MOPS", "Kan", "FeSO4">>
\* the columns of target_concentrations.csv: the components varied per well
TargetColumns == <<"MOPS">>
\* the index of target_concentrations.csv: the destination wells, in file order
WellNames == <<"A1", "A2", "A3", "A4", "A5", "A6">>
Wells == SubSeq(WellNames, 1, NumWells)

\* <<High Concentration, Low Concentration>> rows of the stock table
StockPairs == { <<100, 0>>, <<3000, 100>>, <<0, 100>>, <<0, 0>>, <<1, 0>>, <<3000, 0>> }
FreshStockPairs == { <<100, 0>>, <<3000, 100>> }
\* the Kan row as written in the file; load_csv_inputs overwrites it
KanRawPairs == { <<50, 5>> }
\* Concentration[mM] values of standard_recipe_concentrations.csv
StandardConcs == {0, 1}
\* the values of target_concentrations.csv
TargetConcs == {0, 1, 2}

Entry(well, comp) == [well |-> well, comp |-> comp]

\* the three plate layouts, each a sequence of (Well, Component) rows
Layout(mopsHigh, mopsLow, kan, culture) ==
    [ high  |-> (IF mopsHigh THEN <<Entry("A1", "MOPS")>> ELSE <<>>)
                \o (IF kan THEN <<Entry("A2", "Kan"), Entry("A4", "Kan")>> ELSE <<>>)
                \o (IF mopsHigh THEN <<Entry("A3", "MOPS")>> ELSE <<>>),
      low   |-> <<Entry("A1", "Tris")>>
                \o (IF mopsLow THEN <<Entry("B2", "MOPS")>> ELSE <<>>),
      fresh |-> <<Entry("B1", "FeSO4"), Entry("C1", "FeSO4")>>
                \o (IF culture THEN <<Entry("D1", "Culture")>> ELSE <<>>) ]

Layouts ==
    { Layout(TRUE, TRUE, TRUE, TRUE), Layout(FALSE, TRUE, TRUE, TRUE),
      Layout(TRUE, FALSE, TRUE, TRUE), Layout(FALSE, FALSE, TRUE, TRUE),
      Layout(TRUE, TRUE, FALSE, TRUE), Layout(TRUE, TRUE, TRUE, FALSE) }

VARIABLES
    CONFIG,          \* the CONFIG dictionary of this run
    csv,             \* the CSV tables as read
    df_stock,        \* the formatted stock table
    df_target_conc,  \* the target matrix after the fixed components are added
    df_volumes,      \* VolumeMatrix
    df_conc_level,   \* LevelMatrix
    pc,              \* where the run is
    comp_i,          \* position in the components loop
    well_i,          \* position in the wells loop
    transfer_count,
    comp_transfers,
    source_well,     \* kan_source / culture_source, once resolved
    calls,           \* the pipette.transfer calls issued so far, in order
    comments,        \* the protocol.comment entries that carry a result
    pauses,          \* the protocol.pause calls made so far: for each, the number of
                     \* pipette.transfer calls issued before it
    resumes,         \* how many times the operator has resumed the run
    st               \* a single smart_transfer call: its arguments and its calls

vars == <<CONFIG, csv, df_stock, df_target_conc, df_volumes, df_conc_level, pc, comp_i,
          well_i, transfer_count, comp_transfers, source_well, calls, comments, pauses, resumes,
          st>>

Idle == [phase |-> "none"]

(***************************************************************************)
(* load_csv_inputs                                                         *)
(***************************************************************************)
\* df_stock.loc['Kan'] = [300., 300., 1.]
FormatStock(stock) ==
    [stock EXCEPT !.high = [c \in DOMAIN stock.high |->
                              IF c = "Kan" THEN KanStock ELSE stock.high[c]],
                  !.low  = [c \in DOMAIN stock.low |->
                              IF c = "Kan" THEN KanStock ELSE stock.low[c]]]

\* the fixed components of the standard recipe are added to every well, and the
\* columns reordered to the stock table's
FormatTarget(target, standard, stock) ==
    [w \in DOMAIN target |->
       [c \in SeqToSet(stock.index) |->
          IF c \in DOMAIN target[w] THEN target[w][c] ELSE standard[c]]]

(***************************************************************************)
(* run: sources and the calls of one loop iteration                        *)
(***************************************************************************)
Source(plate, well) == [plate |-> plate, well |-> well]
Dest(well_id) == Source("dest_plate", well_id)
NoSource == Source(None, None)
water_source == Source("reservoir", "A1")

Positive(volume) == RatLt(FromInt(0), volume)

\* df_source[df_source["Component"] == comp].index
MatchingWells(df_source, comp) ==
    SelectSeq(df_source, LAMBDA e : e.comp = comp)

Tag(category, comp, cs) ==
    [i \in DOMAIN cs |-> [category |-> category, comp |-> comp, call |-> cs[i]]]

RECURSIVE Reverse(_)
Reverse(s) == IF s = <<>> THEN <<>> ELSE Append(Reverse(Tail(s)), Head(s))

\* a changed components loop: the list taken in reverse
ComponentsReversed(volumes_columns) ==
    Reverse(SelectSeq(volumes_columns, LAMBDA c : c \notin {"Water", "Kan", "Culture"}))

\* the components loop's list
Components(volumes_columns) ==
    SelectSeq(volumes_columns, LAMBDA c : c \notin {"Water", "Kan", "Culture"})

WaterCalls(volumes, well_id) ==
    IF Positive(volumes[well_id]["Water"])
    THEN Tag("Water", "Water",
             smart_transfer(volumes[well_id]["Water"], water_source, Dest(well_id),
                            "auto", NoMix))
    ELSE <<>>

KanCalls(volumes, kan_well, well_id) ==
    IF Positive(volumes[well_id]["Kan"])
    THEN Tag("Kan", "Kan",
             smart_transfer(volumes[well_id]["Kan"], Source("stock_high", kan_well),
                            Dest(well_id), "auto", NoMix))
    ELSE <<>>

\* a changed lookup: a component missing at its level is taken from the other plate
ComponentSourceAnyLevel(layout, comp, conc_level) ==
    IF comp = "FeSO4"
    THEN Source("stock_fresh", IF conc_level = "low" THEN "B1" ELSE "C1")
    ELSE LET high_wells == MatchingWells(layout.high, comp)
             low_wells == MatchingWells(layout.low, comp)
         IN  IF conc_level = "high" /\ Len(high_wells) > 0
             THEN Source("stock_high", high_wells[1].well)
             ELSE IF Len(low_wells) > 0 THEN Source("stock_low", low_wells[1].well)
             ELSE IF Len(high_wells) > 0 THEN Source("stock_high", high_wells[1].well)
             ELSE NoSource

\* the source of a component at a level, or NoSource when no well of the layout matches
ComponentSource(layout, comp, conc_level) ==
    IF comp = "FeSO4"
    THEN Source("stock_fresh", IF conc_level = "low" THEN "B1" ELSE "C1")
    ELSE LET plate == IF conc_level = "high" THEN "stock_high" ELSE "stock_low"
             df_source == IF conc_level = "high" THEN layout.high ELSE layout.low
             source_wells == MatchingWells(df_source, comp)
         IN  IF Len(source_wells) > 0 THEN Source(plate, source_wells[1].well)
             ELSE NoSource

ComponentCalls(layout, volumes, levels, comp, well_id) ==
    IF Positive(volumes[well_id][comp])
       /\ ComponentSource(layout, comp, levels[well_id][comp]) # NoSource
    THEN Tag("Component", comp,
             smart_transfer(volumes[well_id][comp],
                            ComponentSource(layout, comp, levels[well_id][comp]),
                            Dest(well_id), "auto", NoMix))
    ELSE <<>>

CultureCalls(culture_volume, culture_well, well_id) ==
    Tag("Culture", "Culture",
        smart_transfer(culture_volume, Source("stock_fresh", culture_well), Dest(well_id),
                       "auto", CultureMix))

(***************************************************************************)
(* The run                                                                 *)
(***************************************************************************)
Comment(kind, what, n) == [kind |-> kind, what |-> what, n |-> n]

\* "Completed N ... transfers", every tenth transfer
Progress(what, count) ==
    IF count % ProgressEvery = 0 THEN <<Comment("progress", what, count)>> ELSE <<>>

Init ==
    /\ CONFIG \in Configs
    /\ \E mops \in StockPairs, feso4 \in FreshStockPairs, kan \in KanRawPairs,
          layout \in Layouts,
          target \in [SeqToSet(Wells) -> [SeqToSet(TargetColumns) -> TargetConcs]],
          standard \in [SeqToSet(StockIndex) -> StandardConcs] :
            /\ \A c \in SeqToSet(TargetColumns) : standard[c] = 0
            /\ csv = [ stock |-> [ index |-> StockIndex,
                                   high |-> [c \in SeqToSet(StockIndex) |->
                                               IF c = "Kan" THEN kan[1]
                                               ELSE IF c = "FeSO4" THEN feso4[1] ELSE mops[1]],
                                   low  |-> [c \in SeqToSet(StockIndex) |->
                                               IF c = "Kan" THEN kan[2]
                                               ELSE IF c = "FeSO4" THEN feso4[2] ELSE mops[2]] ],
                       standard |-> standard,
                       target |-> target,
                       layout |-> layout ]
    /\ df_stock = <<>>
    /\ df_target_conc = <<>>
    /\ df_volumes = <<>>
    /\ df_conc_level = <<>>
    /\ pc = "load"
    /\ comp_i = 0
    /\ well_i = 0
    /\ transfer_count = 0
    /\ comp_transfers = 0
    /\ source_well = None
    /\ calls = <<>>
    /\ comments = <<>>
    /\ pauses = <<>>
    /\ resumes = 0
    /\ st = Idle

\* df_stock, df_target_conc, ... = load_csv_inputs(protocol)
Load ==
    /\ pc = "load"
    /\ df_stock' = FormatStock(csv.stock)
    /\ df_target_conc' = FormatTarget(csv.target, csv.standard, csv.stock)
    /\ pc' = "calc"
    /\ UNCHANGED <<CONFIG, csv, df_volumes, df_conc_level, comp_i, well_i, transfer_count,
                   comp_transfers, source_well, calls, comments, pauses, resumes, st>>

\* calculate_transfer_volumes, the validation of the row sums, and the setup up to
\* the water loop
Calculate ==
    /\ pc = "calc"
    /\ LET r == calculate_transfer_volumes(df_stock, df_target_conc, CONFIG.well_volume,
                                           CONFIG.min_transfer_volume, CONFIG.culture_factor)
       IN  /\ df_volumes' = r[1]
           /\ df_conc_level' = r[2]
           /\ comments' = comments \o
                (IF ValidationFails(df_stock, r[1], CONFIG.well_volume)
                 THEN <<Comment("warning", "volume_sum", 0)>> ELSE <<>>)
    /\ transfer_count' = 0
    /\ well_i' = 1
    /\ pc' = "water"
    /\ UNCHANGED <<CONFIG, csv, df_stock, df_target_conc, comp_i, comp_transfers,
                   source_well, calls, pauses, resumes, st>>

\* one iteration of the water loop; the last one reports the count
WaterStep ==
    /\ pc = "water"
    /\ LET well_id == Wells[well_i]
           done == IF Positive(df_volumes[well_id]["Water"]) THEN 1 ELSE 0
           count == transfer_count + done
           last == well_i = Len(Wells)
       IN  /\ calls' = calls \o WaterCalls(df_volumes, well_id)
           /\ transfer_count' = count
           /\ comments' = comments
                \o (IF done = 1 THEN Progress("Water", count) ELSE <<>>)
                \o (IF last THEN <<Comment("complete", "Water", count)>> ELSE <<>>)
           /\ well_i' = IF last THEN 0 ELSE well_i + 1
           /\ pc' = IF last THEN "kan_source" ELSE "water"
    /\ UNCHANGED <<CONFIG, csv, df_stock, df_target_conc, df_volumes, df_conc_level, comp_i,
                   comp_transfers, source_well, pauses, resumes, st>>

\* the kanamycin source is looked up once in the high-level layout
KanSource ==
    /\ pc = "kan_source"
    /\ LET kan_wells == MatchingWells(csv.layout.high, "Kan")
       IN  IF Len(kan_wells) > 0
           THEN /\ source_well' = kan_wells[1].well
                /\ transfer_count' = 0
                /\ well_i' = 1
                /\ comp_i' = comp_i
                /\ pc' = "kan"
                /\ comments' = comments
           ELSE /\ source_well' = source_well
                /\ comments' = Append(comments, Comment("skip", "Kan", 0))
                /\ transfer_count' = 0
                /\ comp_i' = 1
                /\ well_i' = 1
                /\ pc' = "components"
    /\ comp_transfers' = 0
    /\ UNCHANGED <<CONFIG, csv, df_stock, df_target_conc, df_volumes, df_conc_level, calls,
                   pauses, resumes, st>>

KanStep ==
    /\ pc = "kan"
    /\ LET well_id == Wells[well_i]
           done == IF Positive(df_volumes[well_id]["Kan"]) THEN 1 ELSE 0
           count == transfer_count + done
           last == well_i = Len(Wells)
       IN  /\ calls' = calls \o KanCalls(df_volumes, source_well, well_id)
           /\ comments' = comments
                \o (IF last THEN <<Comment("complete", "Kan", count)>> ELSE <<>>)
           /\ transfer_count' = IF last THEN 0 ELSE count
           /\ well_i' = IF last THEN 1 ELSE well_i + 1
           /\ comp_i' = IF last THEN 1 ELSE comp_i
           /\ pc' = IF last THEN "components" ELSE "kan"
    /\ comp_transfers' = 0
    /\ UNCHANGED <<CONFIG, csv, df_stock, df_target_conc, df_volumes, df_conc_level,
                   source_well, pauses, resumes, st>>

\* one iteration of the inner loop of the components loop
ComponentStep ==
    /\ pc = "components"
    /\ LET components == Components(VolumeColumns(df_stock))
           comp == components[comp_i]
           well_id == Wells[well_i]
           wanted == Positive(df_volumes[well_id][comp])
           missing == wanted /\ ComponentSource(csv.layout, comp,
                                                df_conc_level[well_id][comp]) = NoSource
           done == IF wanted /\ ~missing THEN 1 ELSE 0
           lastWell == well_i = Len(Wells)
           lastComp == lastWell /\ comp_i = Len(components)
       IN  /\ calls' = calls \o ComponentCalls(csv.layout, df_volumes, df_conc_level,
                                               comp, well_id)
           /\ comments' = comments
                \o (IF missing THEN <<Comment("warning", comp, 0)>> ELSE <<>>)
                \o (IF lastWell /\ comp_transfers + done > 0
                    THEN <<Comment("component", comp, comp_transfers + done)>> ELSE <<>>)
                \o (IF lastComp
                    THEN <<Comment("complete", "Component", transfer_count + done)>>
                    ELSE <<>>)
           /\ transfer_count' = transfer_count + done
           /\ comp_transfers' = IF lastWell THEN 0 ELSE comp_transfers + done
           /\ well_i' = IF lastWell THEN 1 ELSE well_i + 1
           /\ comp_i' = IF lastWell THEN comp_i + 1 ELSE comp_i
           /\ pc' = IF lastComp THEN "pause" ELSE "components"
    /\ UNCHANGED <<CONFIG, csv, df_stock, df_target_conc, df_volumes, df_conc_level,
                   source_well, pauses, resumes, st>>

\* a changed run: the culture step is entered without the pause
PauseOmitted ==
    /\ pc = "pause"
    /\ pc' = "paused"
    /\ UNCHANGED <<CONFIG, csv, df_stock, df_target_conc, df_volumes, df_conc_level, comp_i,
                   well_i, transfer_count, comp_transfers, source_well, calls, comments,
                   pauses, resumes, st>>

\* protocol.pause(...): the run blocks until it is resumed
Pause ==
    /\ pc = "pause"
    /\ pauses' = Append(pauses, Len(calls))
    /\ pc' = "paused"
    /\ UNCHANGED <<CONFIG, csv, df_stock, df_target_conc, df_volumes, df_conc_level, comp_i,
                   well_i, transfer_count, comp_transfers, source_well, calls, comments,
                   resumes, st>>

\* the operator resumes the run; the culture source is then looked up
Resume ==
    /\ pc = "paused"
    /\ LET culture_wells == MatchingWells(csv.layout.fresh, "Culture")
       IN  IF Len(culture_wells) > 0
           THEN /\ source_well' = culture_wells[1].well
                /\ comments' = comments
                /\ pc' = "culture"
           ELSE /\ source_well' = source_well
                /\ comments' = Append(comments, Comment("error", "Culture", 0))
                /\ pc' = "complete"
    /\ resumes' = resumes + 1
    /\ transfer_count' = 0
    /\ well_i' = 1
    /\ UNCHANGED <<CONFIG, csv, df_stock, df_target_conc, df_volumes, df_conc_level, comp_i,
                   comp_transfers, calls, pauses, st>>

CultureStep ==
    /\ pc = "culture"
    /\ LET well_id == Wells[well_i]
           culture_volume == df_volumes[Wells[1]]["Culture"]
           count == transfer_count + 1
           last == well_i = Len(Wells)
       IN  /\ calls' = calls \o CultureCalls(culture_volume, source_well, well_id)
           /\ transfer_count' = count
           /\ comments' = comments
                \o Progress("Culture", count)
                \o (IF last THEN <<Comment("complete", "Culture", count)>> ELSE <<>>)
           /\ well_i' = IF last THEN 0 ELSE well_i + 1
           /\ pc' = IF last THEN "complete" ELSE "culture"
    /\ UNCHANGED <<CONFIG, csv, df_stock, df_target_conc, df_volumes, df_conc_level, comp_i,
                   comp_transfers, source_well, pauses, resumes, st>>

\* "PROTOCOL COMPLETE"
Complete ==
    /\ pc = "complete"
    /\ comments' = Append(comments, Comment("protocol_complete", "wells", Len(Wells)))
    /\ pc' = "done"
    /\ UNCHANGED <<CONFIG, csv, df_stock, df_target_conc, df_volumes, df_conc_level, comp_i,
                   well_i, transfer_count, comp_transfers, source_well, calls, pauses, resumes, st>>

Next ==
    \/ Load
    \/ Calculate
    \/ WaterStep
    \/ KanSource
    \/ KanStep
    \/ ComponentStep
    \/ Pause
    \/ Resume
    \/ CultureStep
    \/ Complete

Spec == Init /\ [][Next]_vars

(***************************************************************************)
(* smart_transfer on its own: one call with any volume, channel choice and *)
(* mix_after                                                               *)
(***************************************************************************)
TransferVolumes == { Rat(k, 2) : k \in 0..MaxHalfVolume }
PipChoices == {"auto", "p20", "p300"}

InitTransfer ==
    /\ CONFIG \in { c \in Configs : c.culture_factor = 100 }
    /\ csv = <<>>
    /\ df_stock = <<>>
    /\ df_target_conc = <<>>
    /\ df_volumes = <<>>
    /\ df_conc_level = <<>>
    /\ pc = "smart_transfer"
    /\ comp_i = 0
    /\ well_i = 0
    /\ transfer_count = 0
    /\ comp_transfers = 0
    /\ source_well = None
    /\ calls = <<>>
    /\ comments = <<>>
    /\ pauses = <<>>
    /\ resumes = 0
    /\ \E volume \in TransferVolumes, pip_choice \in PipChoices,
          mix_after \in {NoMix, CultureMix} :
            st = [phase |-> "call", volume |-> volume, pip_choice |-> pip_choice,
                  mix_after |-> mix_after, out |-> <<>>]

CallSmartTransfer ==
    /\ pc = "smart_transfer"
    /\ st.phase = "call"
    /\ st' = [st EXCEPT !.phase = "returned",
                        !.out = smart_transfer(st.volume, water_source, Dest("A1"),
                                               st.pip_choice, st.mix_after)]
    /\ UNCHANGED <<CONFIG, csv, df_stock, df_target_conc, df_volumes, df_conc_level, pc,
                   comp_i, well_i, transfer_count, comp_transfers, source_well, calls,
                   comments, pauses, resumes>>

NextTransfer == CallSmartTransfer

SpecTransfer == InitTransfer /\ [][NextTransfer]_vars

(***************************************************************************)
(* Channel selection and splitting                                         *)
(***************************************************************************)
Returned == pc = "smart_transfer" /\ st.phase = "returned"
\* a channel is chosen only for a volume that passes the minimum
PassesMinimum == RatLeq(FromInt(SkipBelow), st.volume)

\* C5 as stated: with pip_choice 'auto' every volume at or above the minimum goes
\* to the smallest channel whose capacity is >= the volume: p20 up to and including
\* 20, p300 above 20 (also when no channel's capacity suffices).
C5_SmallestSufficientChannel ==
    (Returned /\ st.pip_choice = "auto" /\ PassesMinimum) =>
        /\ Len(st.out) >= 1
        /\ \A i \in DOMAIN st.out :
             st.out[i].pipette = IF RatLeq(st.volume, FromInt(P20Max)) THEN "p20" ELSE "p300"

\* C5 amended: with pip_choice 'auto' every volume at or above the minimum and
\* strictly below 20 goes to p20, and every volume of 20 or more goes to p300
\* (so exactly 20 goes to p300, as do volumes above 300).
C5_AutoChannelBelow20 ==
    (Returned /\ st.pip_choice = "auto" /\ PassesMinimum) =>
        /\ Len(st.out) >= 1
        /\ \A i \in DOMAIN st.out :
             /\ RatLt(st.volume, FromInt(20)) => st.out[i].pipette = "p20"
             /\ RatLeq(FromInt(20), st.volume) => st.out[i].pipette = "p300"

C5_Witness ==
    /\ Returned
    /\ st.pip_choice = "auto"
    /\ st.volume = FromInt(20)
    /\ Len(st.out) = 1
    /\ st.out[1].pipette = "p300"

\* C6: once a channel is chosen, a volume above the channel's maximum is issued as
\* exactly n = ceil(volume / channel_max) calls from the same source to the same
\* destination, each of volume / n (so each at most channel_max, summing to the
\* volume) and each with a fresh tip; a volume of at most channel_max is issued as
\* exactly one call of the full volume.
C6_SplitIntoEqualParts ==
    (Returned /\ PassesMinimum) =>
        LET channel_max == IF ChoosePipette(st.volume, st.pip_choice) = "p20" THEN 20 ELSE 300
            n == Len(st.out)
        IN  /\ \A i \in DOMAIN st.out :
                 /\ st.out[i].new_tip = "always"
                 /\ st.out[i].source = water_source
                 /\ st.out[i].dest = Dest("A1")
                 /\ st.out[i].pipette = ChoosePipette(st.volume, st.pip_choice)
                 /\ RatLeq(st.out[i].volume, FromInt(channel_max))
                 /\ st.out[i].volume.n * n * st.volume.d = st.volume.n * st.out[i].volume.d
            /\ RatSum([i \in DOMAIN st.out |-> st.out[i].volume]) = st.volume
            /\ IF RatLt(FromInt(channel_max), st.volume)
               THEN \* n is the least integer with n * channel_max >= volume
                    /\ RatLeq(st.volume, FromInt(n * channel_max))
                    /\ RatLt(FromInt((n - 1) * channel_max), st.volume)
               ELSE n = 1 /\ st.out[1].volume = st.volume

C6_Witness ==
    /\ Returned
    /\ st.pip_choice = "p20"
    /\ st.volume = FromInt(45)
    /\ Len(st.out) = 3
    /\ \A i \in 1..3 : st.out[i].volume = FromInt(15) /\ st.out[i].pipette = "p20"

(***************************************************************************)
(* The volume plan                                                         *)
(***************************************************************************)
Planned == pc \notin {"load", "calc", "smart_transfer"}
WellSet == SeqToSet(Wells)
ComponentSet == SeqToSet(StockIndex)

\* the sum of a row, taken column by column
RowTotal(row) ==
    LET cols == StockIndex \o <<"Water", "Culture">>
    IN  RatSum([i \in DOMAIN cols |-> row[cols[i]]])

\* C1: for every destination well, the row of the VolumeMatrix (all component
\* columns plus Water plus Culture) sums to well_volume, and the run's validation
\* of the row sums records no warning.
C1_RowSumIsWellVolume ==
    Planned =>
        /\ \A w \in WellSet : RowTotal(df_volumes[w]) = FromInt(CONFIG.well_volume)
        /\ \A i \in DOMAIN comments :
             ~(comments[i].kind = "warning" /\ comments[i].what = "volume_sum")

\* a plan with a fallback volume above the ceiling and a negative Water volume
C1_Witness ==
    /\ Planned
    /\ \E w \in WellSet :
         /\ Positive(df_volumes[w]["MOPS"])
         /\ Positive(df_volumes[w]["Kan"])
         /\ RatLt(df_volumes[w]["Water"], FromInt(0))

\* C2 as stated: every (well, component) pair whose target concentration is 0, Kan
\* included, has volume 0 and level none.
C2_ZeroTargetZeroVolumeNoLevel ==
    Planned =>
        \A w \in WellSet, c \in ComponentSet :
            df_target_conc[w][c] = 0 =>
                /\ df_volumes[w][c] = FromInt(0)
                /\ df_conc_level[w][c] = None

\* C2 amended: every (well, component) pair whose target concentration is 0 has
\* volume 0; its level is none for every component except Kan, whose level is
\* always high.
C2_ZeroTargetZeroVolume ==
    Planned =>
        \A w \in WellSet, c \in ComponentSet :
            df_target_conc[w][c] = 0 =>
                /\ df_volumes[w][c] = FromInt(0)
                /\ c # "Kan" => df_conc_level[w][c] = None
                /\ c = "Kan" => df_conc_level[w][c] = "high"

C2_Witness ==
    /\ Planned
    /\ \E w \in WellSet :
         /\ df_target_conc[w]["Kan"] = 0
         /\ df_target_conc[w]["MOPS"] = 0
         /\ df_stock.high["MOPS"] > 0
         /\ df_conc_level[w]["MOPS"] = None
         /\ df_conc_level[w]["Kan"] = "high"

(***************************************************************************)
(* The order of the calls                                                  *)
(***************************************************************************)
IndexOf(seq, x) == CHOOSE i \in DOMAIN seq : seq[i] = x

CategoryRank(category) ==
    CASE category = "Water" -> 1
      [] category = "Kan" -> 2
      [] category = "Component" -> 3
      [] category = "Culture" -> 4

\* a comes no later than b in (category, declared component, well row) order
InOrder(a, b) ==
    \/ CategoryRank(a.category) < CategoryRank(b.category)
    \/ /\ a.category = b.category
       /\ \/ a.category # "Component"
          \/ IndexOf(StockIndex, a.comp) <= IndexOf(StockIndex, b.comp)
       /\ \/ a.comp # b.comp
          \/ IndexOf(Wells, a.call.dest.well) <= IndexOf(Wells, b.call.dest.well)

\* C3: the calls are ordered by category: all Water calls, then all Kan calls, then
\* all generic-component calls, then all Culture calls; generic components in the
\* stock table's declared order; within a category (and a generic component) the
\* destination wells in the VolumeMatrix row order.
\* (InOrder is a lexicographic order, so it holds of every pair of calls when it
\* holds of every two consecutive calls.)
C3_CallsInCategoryOrder ==
    \A i \in DOMAIN calls : i > 1 => InOrder(calls[i - 1], calls[i])

C3_Witness ==
    /\ pc = "done"
    /\ \A cat \in {"Water", "Kan", "Culture"}, w \in WellSet :
         \E i \in DOMAIN calls : calls[i].category = cat /\ calls[i].call.dest.well = w
    /\ \A c \in {"MOPS", "FeSO4"}, w \in WellSet :
         \E i \in DOMAIN calls : calls[i].comp = c /\ calls[i].call.dest.well = w

\* C4: no Culture call is issued before protocol.pause has been called and the run
\* resumed: whenever a Culture call has been issued, exactly one pause was made and
\* resumed, every Culture call came after it, and every Water, Kan and
\* generic-component call came before it.
C4_PauseBeforeCulture ==
    /\ Len(pauses) <= 1
    /\ resumes <= Len(pauses)
    /\ (\E i \in DOMAIN calls : calls[i].category = "Culture") =>
          /\ Len(pauses) = 1
          /\ resumes = 1
    /\ \A i \in DOMAIN calls :
          IF calls[i].category = "Culture"
          THEN Len(pauses) = 1 /\ i > pauses[1]
          ELSE Len(pauses) = 1 => i <= pauses[1]

C4_Witness ==
    /\ pc = "done"
    /\ Len(pauses) = 1
    /\ pauses[1] > 0
    /\ pauses[1] < Len(calls)
    /\ \E i \in DOMAIN calls : calls[i].category = "Component"

(***************************************************************************)
(* Mixing, dropped transfers, missing sources and the fill of a well       *)
(***************************************************************************)
\* C7: every Culture call carries the post-dispense mix action (3 repetitions,
\* 10 uL), whatever well_volume and culture_factor are configured, and no call of
\* any other category carries a mix action.
C7_CultureCallsCarryMix ==
    \A i \in DOMAIN calls :
        IF calls[i].category = "Culture"
        THEN calls[i].call.mix_after = <<3, 10>>
        ELSE calls[i].call.mix_after = NoMix

CallsFor(w, col) ==
    { i \in DOMAIN calls : calls[i].comp = col /\ calls[i].call.dest.well = w }

\* a comment that reports the skip of a column or of its whole category
Logged(col) ==
    \E i \in DOMAIN comments :
        comments[i].kind \in {"warning", "skip", "error"} /\ comments[i].what = col

\* the (well, column) pairs that received at least one call of a category
PairsServed(category) ==
    { p \in WellSet \X (ComponentSet \cup {"Water", "Culture"}) :
        \E i \in DOMAIN calls :
            /\ calls[i].category = category
            /\ calls[i].comp = p[2]
            /\ calls[i].call.dest.well = p[1] }

\* C8: no planned transfer is silently dropped: at the end of the run every (well,
\* column) with a nonzero planned volume has a call or a comment covering it (or
\* its category), and the transfers reported as complete are transfers that were
\* issued.
C8_NoSilentDrop ==
    pc = "done" =>
        /\ \A w \in WellSet, col \in ComponentSet \cup {"Water", "Culture"} :
             df_volumes[w][col] # FromInt(0) => (CallsFor(w, col) # {} \/ Logged(col))
        /\ \A i \in DOMAIN comments :
             comments[i].kind = "complete" =>
                 comments[i].n = Cardinality(PairsServed(comments[i].what))

TotalInto(w) ==
    LET mine == SelectSeq(calls, LAMBDA c : c.call.dest.well = w)
    IN  RatSum([i \in DOMAIN mine |-> mine[i].call.volume])

\* C10: the Water volume planned for every well is non-negative, and after a
\* complete run the total volume dispensed into each destination well is at most
\* well_volume.
C10_WellNeverOverfilled ==
    /\ Planned => \A w \in WellSet : RatLeq(FromInt(0), df_volumes[w]["Water"])
    /\ pc = "done" => \A w \in WellSet : RatLeq(TotalInto(w), FromInt(CONFIG.well_volume))

RECURSIVE Flat(_)
Flat(ss) == IF ss = <<>> THEN <<>> ELSE Head(ss) \o Flat(Tail(ss))

\* every call of a run that is not stopped, by category
RunPlan(layout, volumes, levels) ==
    LET kan_wells == MatchingWells(layout.high, "Kan")
        culture_wells == MatchingWells(layout.fresh, "Culture")
        components == Components(VolumeColumns(df_stock))
    IN  Flat([i \in DOMAIN Wells |-> WaterCalls(volumes, Wells[i])])
        \o (IF Len(kan_wells) > 0
            THEN Flat([i \in DOMAIN Wells |-> KanCalls(volumes, kan_wells[1].well, Wells[i])])
            ELSE <<>>)
        \o Flat([k \in DOMAIN components |->
                   Flat([i \in DOMAIN Wells |->
                           ComponentCalls(layout, volumes, levels, components[k], Wells[i])])])
        \o (IF Len(culture_wells) > 0
            THEN Flat([i \in DOMAIN Wells |->
                         CultureCalls(volumes[Wells[1]]["Culture"], culture_wells[1].well,
                                      Wells[i])])
            ELSE <<>>)

LayoutHas(rows, comp) == \E i \in DOMAIN rows : rows[i].comp = comp
LevelRows(layout, level) == IF level = "high" THEN layout.high ELSE layout.low
GenericComponents == ComponentSet \ {"Kan", "FeSO4"}

\* the (well, component) pairs with a positive volume and no well of the component
\* in the layout of the chosen level
MissingPairs ==
    { p \in WellSet \X GenericComponents :
        /\ Positive(df_volumes[p[1]][p[2]])
        /\ ~LayoutHas(LevelRows(csv.layout, df_conc_level[p[1]][p[2]]), p[2]) }

RECURSIVE WithAll(_, _)
WithAll(rows, comps) ==
    IF comps = {} THEN rows
    ELSE LET c == CHOOSE x \in comps : TRUE
         IN  WithAll(IF LayoutHas(rows, c) THEN rows ELSE Append(rows, Entry("D6", c)),
                     comps \ {c})

\* the layout with every generic component present at both levels
Stocked(layout) ==
    [layout EXCEPT !.high = WithAll(@, GenericComponents),
                   !.low = WithAll(@, GenericComponents)]

\* the run is completed, or at a position from which its next step is taken: the
\* loops are inside their lists, and every other step needs nothing
CanContinue ==
    \/ pc \in {"load", "calc", "kan_source", "pause", "paused", "complete", "done"}
    \/ pc \in {"water", "kan", "culture"} /\ well_i \in DOMAIN Wells
    \/ /\ pc = "components"
       /\ comp_i \in DOMAIN Components(VolumeColumns(df_stock))
       /\ well_i \in DOMAIN Wells

\* C9: a generic component (not Kan, not FeSO4) with a positive planned volume and no
\* matching well in the layout of its level gets no call for that (well, component)
\* pair and one warning; the calls for every other pair and for Culture are those of
\* the run with the source present, in the same order; and the run is never stopped
\* short of its completion.
C9_MissingSourceSkipsOnlyThatPair ==
    /\ pc # "smart_transfer" => CanContinue
    /\ pc = "done" =>
         /\ \A p \in MissingPairs : CallsFor(p[1], p[2]) = {}
         /\ \A c \in GenericComponents :
              Cardinality({ i \in DOMAIN comments :
                              comments[i].kind = "warning" /\ comments[i].what = c })
                = Cardinality({ p \in MissingPairs : p[2] = c })
         /\ calls = SelectSeq(RunPlan(Stocked(csv.layout), df_volumes, df_conc_level),
                              LAMBDA c : <<c.call.dest.well, c.comp>> \notin MissingPairs)

C9_Witness ==
    /\ pc = "done"
    /\ MissingPairs # {}
    /\ \E w \in WellSet : <<w, "MOPS">> \notin MissingPairs /\ CallsFor(w, "MOPS") # {}
    /\ \E w \in WellSet : CallsFor(w, "Culture") # {}
    /\ \E w \in WellSet : CallsFor(w, "FeSO4") # {}

====
